---- MODULE Spec2Model ----
(***************************************************************************)
(* romio: the datagram socket (src/src/udp.rs) and its two operation       *)
(* futures, SendTo and RecvFrom, driven step by step against the           *)
(* readiness registration (PollEvented) and the operating system's         *)
(* non-blocking sendto / recvfrom; its synchronous calls (bind, the        *)
(* option accessors); and the peer-credential lookup of the interprocess   *)
(* stream socket (src/src/uds/ucred.rs).                                   *)
(***************************************************************************)
EXTENDS Integers, Sequences, FiniteSets, TLC

\* ---------------------------------------------------------------- bounds
MaxOps == 3      \* operations created in one behaviour
MaxLen == 1      \* longest payload / largest receive buffer
MaxQueue == 1    \* datagrams an OS receive queue holds before it drops

\* ------------------------------------------------------------- the world
Socks == {"A", "B"}
NoAddr == "none"
NoErr == "none"
\* errors of the OS syscalls other than would-block
OsErrors == {"ECONNREFUSED", "EPERM"}
\* the error a failing registration call returns
RegError == "EREG"

Min(a, b) == IF a <= b THEN a ELSE b

\* UdpSocket::local_addr: the address the socket was bound to
local_addr(s) == IF s = "A" THEN "addrA" ELSE "addrB"

Addrs == {local_addr(s) : s \in Socks}

Payload(k) == [i \in 1..k |-> i]
\* the payloads sent: the empty one and the longest one
Payloads == {Payload(0), Payload(MaxLen)}
Buffer(cap) == [i \in 1..cap |-> 0]
\* the receive buffers offered: the empty one and the largest one
Buffers == {Buffer(0), Buffer(MaxLen)}
\* the destinations s sends to: its peers
Targets(s) == {local_addr(t) : t \in Socks \ {s}}

VARIABLES
    created,  \* operations created so far
    ops,      \* the live operation futures (created, not completed, not dropped)
    rxq,      \* per socket: the OS queue of received datagrams
    txroom,   \* per socket: the OS send buffer has room
    ready,    \* per socket and direction: PollEvented's cached readiness
    step,     \* what the drive-step just taken did (NoStep after any other action)
    opts,     \* the OS socket options IP_TTL and SO_BROADCAST of the sockets that had one set
    bound,    \* the sockets made by bind, besides the two of Socks
    proc,     \* the process and its platform: os, pointer width, euid, egid
    uds,      \* the open interprocess stream sockets
    errno,    \* the thread's last OS error code
    call      \* what the synchronous call just made did (NoCall after any other action)

vars == <<created, ops, rxq, txroom, ready, step, opts, bound, proc, uds, errno, call>>

\* the state of the datagram sockets but for the record of the last step
udp == <<created, ops, rxq, txroom, ready>>

\* ---------------------------------------------------------------- results
Pending == [tag |-> "Pending", n |-> 0, src |-> NoAddr, err |-> NoErr]
ReadyOk(n, src) == [tag |-> "Ok", n |-> n, src |-> src, err |-> NoErr]
ReadyErr(e) == [tag |-> "Err", n |-> 0, src |-> NoAddr, err |-> e]

\* io::Result of a synchronous call
Ok(v) == [tag |-> "Ok", val |-> v]
Err(e) == [tag |-> "Err", err |-> e]

NoCall == [kind |-> "none"]

\* an action of the datagram sockets' operations: it makes no synchronous
\* call and leaves the options, the bound sockets, the process, the stream
\* sockets and errno alone
Silent ==
    /\ call' = NoCall
    /\ UNCHANGED <<opts, bound, proc, uds, errno>>

SysNone == [tag |-> "none", n |-> 0, src |-> NoAddr, err |-> NoErr]
SysOk(n, src) == [tag |-> "ok", n |-> n, src |-> src, err |-> NoErr]
SysWouldBlock == [tag |-> "wouldblock", n |-> 0, src |-> NoAddr, err |-> "EWOULDBLOCK"]
SysErr(e) == [tag |-> "err", n |-> 0, src |-> NoAddr, err |-> e]

\* ------------------------------------------------- the operation futures
\* struct SendTo { socket, buf, target }: the payload and destination are
\* borrowed, the socket is borrowed exclusively. woken, polled and done
\* remember the future's past: it was woken since its last step, it was
\* driven, and how many of its syscall attempts succeeded so far.
SendTo(s, buf, target) ==
    [sock |-> s, kind |-> "send", buf |-> buf, target |-> target,
     woken |-> TRUE, polled |-> FALSE, done |-> 0]

\* struct RecvFrom { socket, buf }
RecvFrom(s, buf) ==
    [sock |-> s, kind |-> "recv", buf |-> buf, target |-> NoAddr,
     woken |-> TRUE, polled |-> FALSE, done |-> 0]

Dir(kind) == IF kind = "send" THEN "write" ELSE "read"

\* a shared borrow, `&self`: never refused
Shared(s) == TRUE

\* `&'a mut self`: the socket can be borrowed exclusively only while no live
\* operation holds a borrow of it.
Borrowable(s) == \A o \in ops : o.sock # s

\* ------------------------------------------ the readiness registration
\* PollEvented::poll_write_ready / poll_read_ready: the cached readiness of
\* the direction, or the registration's error. Answering "notready" leaves
\* the calling task's waker with the registration.
poll_write_ready(s, fail) ==
    IF fail THEN "error" ELSE IF ready[s].write THEN "ready" ELSE "notready"

poll_read_ready(s, fail) ==
    IF fail THEN "error" ELSE IF ready[s].read THEN "ready" ELSE "notready"

\* PollEvented::clear_write_ready / clear_read_ready: forget the cached
\* readiness of that one direction and leave the calling task's waker with
\* the registration.
clear_write_ready(r, s) == [r EXCEPT ![s].write = FALSE]

clear_read_ready(r, s) == [r EXCEPT ![s].read = FALSE]

\* the descriptor can really perform the action of the direction now
GenuinelyReady(s, d) == IF d = "read" THEN rxq[s] # <<>> ELSE txroom[s]

\* ------------------------------------------------------- the OS syscalls
\* mio::net::UdpSocket::send_to, non-blocking: the whole datagram or nothing.
mio_send_to(s, buf, target, fault) ==
    IF fault # NoErr THEN SysErr(fault)
    ELSE IF ~txroom[s] THEN SysWouldBlock
    ELSE SysOk(Len(buf), NoAddr)

\* the datagram of a successful send, queued at the socket bound to the
\* target unless that queue is full (UDP drops it then). data and src are
\* what the OS carries; payload and from remember the send_to that made it.
Deliver(q, s, buf, target) ==
    [t \in Socks |->
        IF local_addr(t) = target /\ Len(q[t]) < MaxQueue
        THEN Append(q[t], [data |-> buf, src |-> local_addr(s),
                           payload |-> buf, from |-> s])
        ELSE q[t]]

\* mio::net::UdpSocket::recv_from, non-blocking: the head datagram, cut to
\* the buffer's length, with its sender's address.
mio_recv_from(s, buf, fault) ==
    IF fault # NoErr THEN SysErr(fault)
    ELSE IF rxq[s] = <<>> THEN SysWouldBlock
    ELSE SysOk(Min(Len(Head(rxq[s]).data), Len(buf)), Head(rxq[s]).src)

\* the caller's buffer after n bytes of data were copied into it
Fill(buf, data, n) == [i \in 1..Len(buf) |-> IF i <= n THEN data[i] ELSE buf[i]]

\* ------------------------------------------------------- the drive-step
\* What one drive-step did: the readiness query's answer, the syscall
\* attempts made and the last one's result, the clear-readiness calls made,
\* and the Poll it returned.
Trace(query, nsys, sys, nclear, ret) ==
    [query |-> query, nsys |-> nsys, sys |-> sys, nclear |-> nclear, ret |-> ret]

\* poll_send_to handing the would-block to the caller as the result
poll_send_to_surfacing(o, qfail, fault, cfail) ==
    LET q == poll_write_ready(o.sock, qfail)
        r == mio_send_to(o.sock, o.buf, o.target, fault)
    IN  IF q = "error" THEN Trace(q, 0, SysNone, 0, ReadyErr(RegError))
        ELSE IF q = "notready" THEN Trace(q, 0, SysNone, 0, Pending)
        ELSE IF r.tag = "ok" THEN Trace(q, 1, r, 0, ReadyOk(r.n, NoAddr))
        ELSE Trace(q, 1, r, 0, ReadyErr(r.err))

\* poll_send_to clearing the write readiness after every failed syscall
poll_send_to_clearing(o, qfail, fault, cfail) ==
    LET q == poll_write_ready(o.sock, qfail)
        r == mio_send_to(o.sock, o.buf, o.target, fault)
    IN  IF q = "error" THEN Trace(q, 0, SysNone, 0, ReadyErr(RegError))
        ELSE IF q = "notready" THEN Trace(q, 0, SysNone, 0, Pending)
        ELSE IF r.tag = "ok" THEN Trace(q, 1, r, 0, ReadyOk(r.n, NoAddr))
        ELSE IF r.tag = "wouldblock"
             THEN Trace(q, 1, r, 1, IF cfail THEN ReadyErr(RegError) ELSE Pending)
        ELSE Trace(q, 1, r, 1, ReadyErr(r.err))

\* poll_send_to returning Pending on would-block without clearing the write
\* readiness
poll_send_to_unclearing(o, qfail, fault, cfail) ==
    LET q == poll_write_ready(o.sock, qfail)
        r == mio_send_to(o.sock, o.buf, o.target, fault)
    IN  IF q = "error" THEN Trace(q, 0, SysNone, 0, ReadyErr(RegError))
        ELSE IF q = "notready" THEN Trace(q, 0, SysNone, 0, Pending)
        ELSE IF r.tag = "ok" THEN Trace(q, 1, r, 0, ReadyOk(r.n, NoAddr))
        ELSE IF r.tag = "wouldblock" THEN Trace(q, 1, r, 0, Pending)
        ELSE Trace(q, 1, r, 0, ReadyErr(r.err))

\* poll_send_to reporting Pending after the syscall accepted the datagram
poll_send_to_resuming(o, qfail, fault, cfail) ==
    LET q == poll_write_ready(o.sock, qfail)
        r == mio_send_to(o.sock, o.buf, o.target, fault)
    IN  IF q = "error" THEN Trace(q, 0, SysNone, 0, ReadyErr(RegError))
        ELSE IF q = "notready" THEN Trace(q, 0, SysNone, 0, Pending)
        ELSE IF r.tag = "ok" THEN Trace(q, 1, r, 0, Pending)
        ELSE IF r.tag = "wouldblock"
             THEN Trace(q, 1, r, 1, IF cfail THEN ReadyErr(RegError) ELSE Pending)
        ELSE Trace(q, 1, r, 0, ReadyErr(r.err))

\* impl AsyncDatagram for UdpSocket: poll_send_to
poll_send_to(o, qfail, fault, cfail) ==
    LET q == poll_write_ready(o.sock, qfail)
        r == mio_send_to(o.sock, o.buf, o.target, fault)
    IN  IF q = "error" THEN Trace(q, 0, SysNone, 0, ReadyErr(RegError))
        ELSE IF q = "notready" THEN Trace(q, 0, SysNone, 0, Pending)
        ELSE IF r.tag = "ok" THEN Trace(q, 1, r, 0, ReadyOk(r.n, NoAddr))
        ELSE IF r.tag = "wouldblock"
             THEN Trace(q, 1, r, 1, IF cfail THEN ReadyErr(RegError) ELSE Pending)
        ELSE Trace(q, 1, r, 0, ReadyErr(r.err))

\* poll_recv_from attempting the syscall without asking for read readiness
poll_recv_from_unasked(o, qfail, fault, cfail) ==
    LET q == poll_read_ready(o.sock, qfail)
        r == mio_recv_from(o.sock, o.buf, fault)
    IN  IF q = "error" THEN Trace(q, 0, SysNone, 0, ReadyErr(RegError))
        ELSE IF r.tag = "ok" THEN Trace(q, 1, r, 0, ReadyOk(r.n, r.src))
        ELSE IF r.tag = "wouldblock"
             THEN Trace(q, 1, r, 1, IF cfail THEN ReadyErr(RegError) ELSE Pending)
        ELSE Trace(q, 1, r, 0, ReadyErr(r.err))

\* poll_recv_from treating every failed syscall as a would-block
poll_recv_from_retrying(o, qfail, fault, cfail) ==
    LET q == poll_read_ready(o.sock, qfail)
        r == mio_recv_from(o.sock, o.buf, fault)
    IN  IF q = "error" THEN Trace(q, 0, SysNone, 0, ReadyErr(RegError))
        ELSE IF q = "notready" THEN Trace(q, 0, SysNone, 0, Pending)
        ELSE IF r.tag = "ok" THEN Trace(q, 1, r, 0, ReadyOk(r.n, r.src))
        ELSE Trace(q, 1, r, IF r.tag = "wouldblock" THEN 1 ELSE 0,
                   IF cfail THEN ReadyErr(RegError) ELSE Pending)

\* poll_recv_from completing with an empty result when nothing is queued
poll_recv_from_empty(o, qfail, fault, cfail) ==
    LET q == poll_read_ready(o.sock, qfail)
        r == mio_recv_from(o.sock, o.buf, fault)
    IN  IF q = "error" THEN Trace(q, 0, SysNone, 0, ReadyErr(RegError))
        ELSE IF q = "notready" THEN Trace(q, 0, SysNone, 0, Pending)
        ELSE IF r.tag = "ok" THEN Trace(q, 1, r, 0, ReadyOk(r.n, r.src))
        ELSE IF r.tag = "wouldblock" THEN Trace(q, 1, r, 1, ReadyOk(0, NoAddr))
        ELSE Trace(q, 1, r, 0, ReadyErr(r.err))

\* poll_recv_from reporting the socket's own address as the sender
poll_recv_from_self(o, qfail, fault, cfail) ==
    LET q == poll_read_ready(o.sock, qfail)
        r == mio_recv_from(o.sock, o.buf, fault)
    IN  IF q = "error" THEN Trace(q, 0, SysNone, 0, ReadyErr(RegError))
        ELSE IF q = "notready" THEN Trace(q, 0, SysNone, 0, Pending)
        ELSE IF r.tag = "ok" THEN Trace(q, 1, r, 0, ReadyOk(r.n, local_addr(o.sock)))
        ELSE IF r.tag = "wouldblock"
             THEN Trace(q, 1, r, 1, IF cfail THEN ReadyErr(RegError) ELSE Pending)
        ELSE Trace(q, 1, r, 0, ReadyErr(r.err))

\* poll_recv_from attempting the syscall although the readiness query failed
poll_recv_from_probing(o, qfail, fault, cfail) ==
    LET q == poll_read_ready(o.sock, qfail)
        r == mio_recv_from(o.sock, o.buf, fault)
    IN  IF q = "notready" THEN Trace(q, 0, SysNone, 0, Pending)
        ELSE IF r.tag = "ok" THEN Trace(q, 1, r, 0, ReadyOk(r.n, r.src))
        ELSE IF r.tag = "wouldblock"
             THEN Trace(q, 1, r, 1, IF cfail THEN ReadyErr(RegError) ELSE Pending)
        ELSE Trace(q, 1, r, 0, ReadyErr(r.err))

\* impl AsyncDatagram for UdpSocket: poll_recv_from
poll_recv_from(o, qfail, fault, cfail) ==
    LET q == poll_read_ready(o.sock, qfail)
        r == mio_recv_from(o.sock, o.buf, fault)
    IN  IF q = "error" THEN Trace(q, 0, SysNone, 0, ReadyErr(RegError))
        ELSE IF q = "notready" THEN Trace(q, 0, SysNone, 0, Pending)
        ELSE IF r.tag = "ok" THEN Trace(q, 1, r, 0, ReadyOk(r.n, r.src))
        ELSE IF r.tag = "wouldblock"
             THEN Trace(q, 1, r, 1, IF cfail THEN ReadyErr(RegError) ELSE Pending)
        ELSE Trace(q, 1, r, 0, ReadyErr(r.err))

NoDgram == [data |-> <<>>, src |-> NoAddr, payload |-> <<>>, from |-> "none"]

NoStep ==
    [sock |-> "none", kind |-> "none", first |-> FALSE, dgram |-> NoDgram,
     buf |-> <<>>, tr |-> Trace("none", 0, SysNone, 0, Pending),
     again |-> FALSE, done |-> 0]

\* the syscall attempts of a step with trace tr that succeeded
Succeeded(tr) == IF tr.nsys > 0 /\ tr.sys.tag = "ok" THEN 1 ELSE 0

\* the record of a drive-step of operation o with trace tr: whether it was
\* o's first, the datagram at the head of the socket's queue when it began,
\* o's buffer when it ended, whether the transition before it was a step of
\* o that absorbed a would-block, and how many of o's syscall attempts
\* succeeded up to and in this step
StepOf(o, tr, buf) ==
    [sock |-> o.sock, kind |-> o.kind, first |-> ~o.polled,
     dgram |-> IF rxq[o.sock] = <<>> THEN NoDgram ELSE Head(rxq[o.sock]),
     buf |-> buf, tr |-> tr,
     again |-> /\ step.sock = o.sock /\ step.kind = o.kind
               /\ step.tr.nclear > 0 /\ step.tr.ret = Pending,
     done |-> o.done + Succeeded(tr)]

\* a drive-step after which the cached readiness is as it was
Driven_keeping(o, tr) ==
    LET s == o.sock
        sent == o.kind = "send" /\ tr.nsys > 0 /\ tr.sys.tag = "ok"
        got == o.kind = "recv" /\ tr.nsys > 0 /\ tr.sys.tag = "ok"
        buf == IF got THEN Fill(o.buf, Head(rxq[s]).data, tr.sys.n) ELSE o.buf
        q2 == IF sent THEN Deliver(rxq, s, o.buf, o.target)
              ELSE IF got THEN [rxq EXCEPT ![s] = Tail(rxq[s])]
              ELSE rxq
    IN  /\ rxq' = q2
        /\ \E room \in (IF sent THEN BOOLEAN ELSE {txroom[s]}) :
              txroom' = [txroom EXCEPT ![s] = room]
        /\ ready' = ready
        /\ ops' = IF tr.ret.tag = "Pending"
                  THEN (ops \ {o}) \cup {[o EXCEPT !.woken = FALSE, !.polled = TRUE,
                                                     !.done = @ + Succeeded(tr)]}
                  ELSE ops \ {o}
        /\ step' = StepOf(o, tr, buf)

\* a drive-step whose clear-readiness forgets both directions
Driven_crossing(o, tr) ==
    LET s == o.sock
        sent == o.kind = "send" /\ tr.nsys > 0 /\ tr.sys.tag = "ok"
        got == o.kind = "recv" /\ tr.nsys > 0 /\ tr.sys.tag = "ok"
        buf == IF got THEN Fill(o.buf, Head(rxq[s]).data, tr.sys.n) ELSE o.buf
        q2 == IF sent THEN Deliver(rxq, s, o.buf, o.target)
              ELSE IF got THEN [rxq EXCEPT ![s] = Tail(rxq[s])]
              ELSE rxq
    IN  /\ rxq' = q2
        /\ \E room \in (IF sent THEN BOOLEAN ELSE {txroom[s]}) :
              txroom' = [txroom EXCEPT ![s] = room]
        /\ ready' = IF tr.nclear = 0 THEN ready
                    ELSE clear_read_ready(clear_write_ready(ready, s), s)
        /\ ops' = IF tr.ret.tag = "Pending"
                  THEN (ops \ {o}) \cup {[o EXCEPT !.woken = FALSE, !.polled = TRUE,
                                                     !.done = @ + Succeeded(tr)]}
                  ELSE ops \ {o}
        /\ step' = StepOf(o, tr, buf)

\* the state after the drive-step of o whose trace is tr: a successful send
\* queues its datagram at the target and may use up the send buffer's room, a
\* successful receive takes the head datagram; a future that returned
\* Pending stays, parked; one that returned Ready is consumed
Driven(o, tr) ==
    LET s == o.sock
        sent == o.kind = "send" /\ tr.nsys > 0 /\ tr.sys.tag = "ok"
        got == o.kind = "recv" /\ tr.nsys > 0 /\ tr.sys.tag = "ok"
        buf == IF got THEN Fill(o.buf, Head(rxq[s]).data, tr.sys.n) ELSE o.buf
        q2 == IF sent THEN Deliver(rxq, s, o.buf, o.target)
              ELSE IF got THEN [rxq EXCEPT ![s] = Tail(rxq[s])]
              ELSE rxq
    IN  /\ rxq' = q2
        /\ \E room \in (IF sent THEN BOOLEAN ELSE {txroom[s]}) :
              txroom' = [txroom EXCEPT ![s] = room]
        /\ ready' = IF tr.nclear = 0 THEN ready
                    ELSE IF o.kind = "send" THEN clear_write_ready(ready, s)
                    ELSE clear_read_ready(ready, s)
        /\ ops' = IF tr.ret.tag = "Pending"
                  THEN (ops \ {o}) \cup {[o EXCEPT !.woken = FALSE, !.polled = TRUE,
                                                     !.done = @ + Succeeded(tr)]}
                  ELSE ops \ {o}
        /\ step' = StepOf(o, tr, buf)

\* what may go wrong in one drive-step of direction d on socket s: the
\* readiness query fails, or the syscall (attempted when readiness is
\* reported) fails with an OS error, or the clear-readiness call (made when
\* the syscall would block) fails; a step meets at most one of them
Faults(s, d) ==
    {f \in [qfail : BOOLEAN, fault : {NoErr} \cup OsErrors, cfail : BOOLEAN] :
        /\ f.qfail => (f.fault = NoErr /\ ~f.cfail)
        /\ f.fault # NoErr => (ready[s][d] /\ ~f.cfail)
        /\ f.cfail => (ready[s][d] /\ ~GenuinelyReady(s, d))}

\* impl Future for SendTo: poll
SendToPoll(o) ==
    /\ o \in ops /\ o.kind = "send"
    /\ \E f \in Faults(o.sock, "write") : Driven(o, poll_send_to(o, f.qfail, f.fault, f.cfail))
    /\ UNCHANGED created
    /\ Silent

\* impl Future for RecvFrom: poll
RecvFromPoll(o) ==
    /\ o \in ops /\ o.kind = "recv"
    /\ \E f \in Faults(o.sock, "read") : Driven(o, poll_recv_from(o, f.qfail, f.fault, f.cfail))
    /\ UNCHANGED created
    /\ Silent

\* ---------------------------------------------------- creating, dropping
\* send_to making the first attempt itself before it returns the future
send_to_eager(s, buf, target) ==
    /\ created < MaxOps
    /\ Borrowable(s)
    /\ created' = created + 1
    /\ \E f \in Faults(s, "write") :
          Driven(SendTo(s, buf, target),
                 poll_send_to(SendTo(s, buf, target), f.qfail, f.fault, f.cfail))
    /\ Silent

\* UdpSocket::send_to: builds the future, nothing else
send_to(s, buf, target) ==
    /\ created < MaxOps
    /\ Borrowable(s)
    /\ created' = created + 1
    /\ ops' = ops \cup {SendTo(s, buf, target)}
    /\ step' = NoStep
    /\ UNCHANGED <<rxq, txroom, ready>>
    /\ Silent

\* UdpSocket::recv_from: builds the future, nothing else
recv_from(s, buf) ==
    /\ created < MaxOps
    /\ Borrowable(s)
    /\ created' = created + 1
    /\ ops' = ops \cup {RecvFrom(s, buf)}
    /\ step' = NoStep
    /\ UNCHANGED <<rxq, txroom, ready>>
    /\ Silent

\* a destructor that flushes the socket's receive queue
Drop_flushing(o) ==
    /\ o \in ops
    /\ ops' = ops \ {o}
    /\ rxq' = [rxq EXCEPT ![o.sock] = <<>>]
    /\ step' = [NoStep EXCEPT !.sock = o.sock, !.kind = "drop", !.first = ~o.polled]
    /\ UNCHANGED <<created, txroom, ready>>
    /\ Silent

\* dropping a future that has not completed: its fields are references and
\* it has no destructor, so only the borrows end (step notes the drop)
Drop(o) ==
    /\ o \in ops
    /\ ops' = ops \ {o}
    /\ step' = [NoStep EXCEPT !.sock = o.sock, !.kind = "drop", !.first = ~o.polled]
    /\ UNCHANGED <<created, rxq, txroom, ready>>
    /\ Silent

\* ------------------------------------------------------- the environment
\* the event source reports that the descriptor became ready in direction
\* d: the readiness is cached and the task parked on it is woken
Signal(s, d) ==
    /\ ~ready[s][d]
    /\ GenuinelyReady(s, d)
    /\ ready' = [ready EXCEPT ![s][d] = TRUE]
    /\ ops' = {IF o.sock = s /\ Dir(o.kind) = d THEN [o EXCEPT !.woken = TRUE] ELSE o :
                  o \in ops}
    /\ step' = NoStep
    /\ UNCHANGED <<created, rxq, txroom>>
    /\ Silent

\* the OS send buffer of s drains
TxDrain(s) ==
    /\ ~txroom[s]
    /\ txroom' = [txroom EXCEPT ![s] = TRUE]
    /\ step' = NoStep
    /\ UNCHANGED <<created, ops, rxq, ready>>
    /\ Silent

\* ---------------------------------------------------- the socket options
\* the values set_ttl is called with; the OS refuses 0
TtlValues == {0, 1, 255}
\* the errors of an option call the OS refuses
OptErrors == {"ENOPROTOOPT"}

\* the options of a new socket. set_ttl and set_broadcast remember the
\* value of the last setter call that succeeded, if there was one
NewOpts == [ttl |-> 64, broadcast |-> FALSE, set_ttl |-> {}, set_broadcast |-> {}]

\* the options of socket s: those of a new socket until a setter succeeded
OptsOf(s) == IF s \in DOMAIN opts THEN opts[s] ELSE NewOpts

\* the options after those of s became o
WithOpts(s, o) == [t \in DOMAIN opts \cup {s} |-> IF t = s THEN o ELSE opts[t]]

\* mio::net::UdpSocket::set_ttl: setsockopt(IP_TTL) on the options o
mio_set_ttl(o, ttl, fault) ==
    IF fault # NoErr THEN [ret |-> Err(fault), opt |-> o]
    ELSE IF ttl < 1 \/ ttl > 255 THEN [ret |-> Err("EINVAL"), opt |-> o]
    ELSE [ret |-> Ok(<<>>), opt |-> [o EXCEPT !.ttl = ttl]]

\* mio::net::UdpSocket::ttl: getsockopt(IP_TTL)
mio_ttl(o, fault) == IF fault # NoErr THEN Err(fault) ELSE Ok(o.ttl)

\* mio::net::UdpSocket::set_broadcast: setsockopt(SO_BROADCAST)
mio_set_broadcast(o, on, fault) ==
    IF fault # NoErr THEN [ret |-> Err(fault), opt |-> o]
    ELSE [ret |-> Ok(<<>>), opt |-> [o EXCEPT !.broadcast = on]]

\* mio::net::UdpSocket::broadcast: getsockopt(SO_BROADCAST)
mio_broadcast(o, fault) == IF fault # NoErr THEN Err(fault) ELSE Ok(o.broadcast)

\* what a synchronous call on a datagram socket leaves alone
Synchronous ==
    /\ step' = NoStep
    /\ UNCHANGED udp
    /\ UNCHANGED <<proc, uds, errno>>

\* UdpSocket::set_ttl(&self, ttl): the call is handed to the OS socket. A
\* shared borrow needs the socket free of the exclusive borrow of a live
\* operation.
set_ttl(s, ttl, fault) ==
    LET r == mio_set_ttl(OptsOf(s), ttl, fault)
    IN  /\ Borrowable(s)
        /\ opts' = IF r.ret.tag = "Ok"
                    THEN WithOpts(s, [r.opt EXCEPT !.set_ttl = {ttl}])
                    ELSE opts
        /\ call' = [kind |-> "set_ttl", sock |-> s, arg |-> ttl, ret |-> r.ret]
        /\ UNCHANGED bound
        /\ Synchronous

\* UdpSocket::ttl(&self)
ttl(s, fault) ==
    /\ Borrowable(s)
    /\ call' = [kind |-> "ttl", sock |-> s, arg |-> <<>>, ret |-> mio_ttl(OptsOf(s), fault)]
    /\ UNCHANGED <<opts, bound>>
    /\ Synchronous

\* set_broadcast switching the option on whatever it is asked
set_broadcast_enabling(s, on, fault) ==
    LET r == mio_set_broadcast(OptsOf(s), TRUE, fault)
    IN  /\ Borrowable(s)
        /\ opts' = IF r.ret.tag = "Ok"
                    THEN WithOpts(s, [r.opt EXCEPT !.set_broadcast = {on}])
                    ELSE opts
        /\ call' = [kind |-> "set_broadcast", sock |-> s, arg |-> on, ret |-> r.ret]
        /\ UNCHANGED bound
        /\ Synchronous

\* UdpSocket::set_broadcast(&self, on)
set_broadcast(s, on, fault) ==
    LET r == mio_set_broadcast(OptsOf(s), on, fault)
    IN  /\ Borrowable(s)
        /\ opts' = IF r.ret.tag = "Ok"
                    THEN WithOpts(s, [r.opt EXCEPT !.set_broadcast = {on}])
                    ELSE opts
        /\ call' = [kind |-> "set_broadcast", sock |-> s, arg |-> on, ret |-> r.ret]
        /\ UNCHANGED bound
        /\ Synchronous

\* UdpSocket::broadcast(&self)
broadcast(s, fault) ==
    /\ Borrowable(s)
    /\ call' = [kind |-> "broadcast", sock |-> s, arg |-> <<>>,
                ret |-> mio_broadcast(OptsOf(s), fault)]
    /\ UNCHANGED <<opts, bound>>
    /\ Synchronous

\* ------------------------------------------------------------------ bind
\* an address no socket of Socks is bound to
FreeAddrs == {"addrC"}
\* the errors of a bind the OS refuses for another reason than the address
\* being taken
BindErrors == {"EACCES"}

\* a socket is bound to the address
InUse(addr) == addr \in Addrs \/ \E b \in bound : b.addr = addr

\* mio::net::UdpSocket::bind: a new descriptor bound to addr, or the OS error
mio_bind(addr, fault) ==
    IF InUse(addr) THEN Err("EADDRINUSE")
    ELSE IF fault # NoErr THEN Err(fault)
    ELSE Ok(addr)

\* UdpSocket::new: the socket with its registration
new(socket) == [addr |-> socket, io |-> "PollEvented"]

\* bind making a socket of whatever the OS answered
bind_regardless(addr, fault) ==
    LET r == mio_bind(addr, fault)
    IN  /\ bound' = bound \cup {new(addr)}
        /\ call' = [kind |-> "bind", arg |-> addr, os |-> r, ret |-> r]
        /\ UNCHANGED opts
        /\ Synchronous

\* UdpSocket::bind: mio's bind, and UdpSocket::new of its socket if it made
\* one
bind(addr, fault) ==
    LET r == mio_bind(addr, fault)
    IN  /\ bound' = IF r.tag = "Ok" THEN bound \cup {new(r.val)} ELSE bound
        /\ call' = [kind |-> "bind", arg |-> addr, os |-> r,
                    ret |-> IF r.tag = "Ok" THEN Ok(new(r.val)) ELSE r]
        /\ UNCHANGED opts
        /\ Synchronous

\* a socket made by bind is dropped: deregistered and closed, its address
\* free again
close(b) ==
    /\ b \in bound
    /\ bound' = bound \ {b}
    /\ call' = NoCall
    /\ UNCHANGED opts
    /\ Synchronous

\* ------------------------------------------------- the peer credentials
\* the platforms the crate is built for
Platforms == {"linux", "macos", "netbsd"}
\* the lookup chosen at build time: the socket option (A) on Linux and
\* Android, the dedicated call (B) elsewhere
Strategy(os) == IF os \in {"linux", "android"} THEN "A" ELSE "B"
\* the platform's primitive answers for the sockets of a socketpair
PairSupported(os) == os # "netbsd"

\* user and group ids
Ids == {0, 1000}
\* what uninitialised memory may hold
Words == Ids \cup {65534}
\* the pointer widths of the platforms, in bytes
PtrWidths == {4, 8}
\* the errors of the credential primitives
CredErrors == {"ENOTCONN", "EPERM"}

size_of_u32 == 4
\* n <= u32::max_value(), for a natural number n: its part above the low 16
\* bits fits in 16 bits
FitsU32(n) == n \div 2^16 < 2^16
\* libc::ucred { pid, uid, gid }, three 32-bit fields
size_of_ucred == 3 * size_of_u32

\* struct UCred { uid, gid }
UCred(uid, gid) == [uid |-> uid, gid |-> gid]

\* the process died in a failed assertion
Abort == [tag |-> "abort"]
NoResult == [tag |-> "none"]

\* What the kernel may answer to a credential primitive: the return code,
\* the error code it sets when it fails, the length it reports and the
\* credentials it has for the peer. It writes no more than size bytes.
KernelAnswers ==
    {[ret |-> 0, err |-> NoErr, size |-> n * size_of_u32,
      cred |-> [pid |-> 1, uid |-> u, gid |-> g]] : n \in 0..3, u \in Ids, g \in Ids}
    \cup
    {[ret |-> -1, err |-> e, size |-> size_of_ucred,
      cred |-> [pid |-> 0, uid |-> 0, gid |-> 0]] : e \in CredErrors}

\* getsockopt(SO_PEERCRED) writing its answer k over the structure mem: the
\* fields that lie within the length it reports
getsockopt(mem, k) ==
    IF k.ret # 0 THEN mem
    ELSE [pid |-> IF k.size >= size_of_u32 THEN k.cred.pid ELSE mem.pid,
          uid |-> IF k.size >= 2 * size_of_u32 THEN k.cred.uid ELSE mem.uid,
          gid |-> IF k.size >= 3 * size_of_u32 THEN k.cred.gid ELSE mem.gid]

\* get_peer_cred of Linux taking the structure whatever length came back
impl_linux_get_peer_cred_unsized(k, ptr, e) ==
    LET ucred == getsockopt([pid |-> 0, uid |-> 0, gid |-> 0], k)
    IN  IF k.ret = 0 THEN Ok(UCred(ucred.uid, ucred.gid)) ELSE Err(e)

\* get_peer_cred of Linux handing out the two ids in each other's place
impl_linux_get_peer_cred_swapped(k, ptr, e) ==
    LET ucred == getsockopt([pid |-> 0, uid |-> 0, gid |-> 0], k)
        ucred_size == IF k.ret = 0 THEN k.size ELSE size_of_ucred
    IN  IF k.ret = 0 /\ ucred_size = size_of_ucred
        THEN Ok(UCred(ucred.gid, ucred.uid))
        ELSE Err(e)

\* impl_linux::get_peer_cred, given the kernel's answer k, the pointer width
\* and the value e of errno after the call: the structure starts zeroed, the
\* two assertions compare sizes, and the credentials are taken only if the
\* call returned 0 and the length that came back is the structure's
impl_linux_get_peer_cred(k, ptr, e) ==
    LET ucred == getsockopt([pid |-> 0, uid |-> 0, gid |-> 0], k)
        ucred_size == IF k.ret = 0 THEN k.size ELSE size_of_ucred
    IN  IF ~(size_of_u32 <= ptr) \/ ~FitsU32(size_of_ucred) THEN Abort
        ELSE IF k.ret = 0 /\ ucred_size = size_of_ucred
        THEN Ok(UCred(ucred.uid, ucred.gid))
        ELSE Err(e)

\* getpeereid writing its answer k through the two pointers into mem
getpeereid(mem, k) == IF k.ret # 0 THEN mem ELSE UCred(k.cred.uid, k.cred.gid)

\* get_peer_cred of the BSDs taking the memory whatever the call returned
impl_macos_get_peer_cred_unchecked(k, uninit, e) ==
    Ok(getpeereid(uninit, k))

\* impl_macos::get_peer_cred, given the kernel's answer k, what the
\* uninitialised UCred held and the value e of errno after the call
impl_macos_get_peer_cred(k, uninit, e) ==
    LET cred == getpeereid(uninit, k)
    IN  IF k.ret = 0 THEN Ok(cred) ELSE Err(e)

\* get_peer_cred: the one the build selected
get_peer_cred(os, k, ptr, uninit, e) ==
    IF Strategy(os) = "A" THEN impl_linux_get_peer_cred(k, ptr, e)
    ELSE impl_macos_get_peer_cred(k, uninit, e)

\* the interprocess stream sockets: the two ends of a socketpair, and one
\* made otherwise
UdsNames == {"a", "b", "c"}
NoPeer == UCred(0, 0)
\* a new stream socket: whether it is an end of a socketpair, its peer's
\* credentials, and the result of the last lookup made on it
UnixStream(paired, peer) == [paired |-> paired, peer |-> peer, seen |-> NoResult]
\* no stream socket is open
NoStreams == [x \in {} |-> NoResult]

\* what the kernel may answer for socket x: for an end of a socketpair the
\* credentials of the process that made the pair, where the platform's
\* primitive knows such sockets; anything for another socket
Kernel(x) ==
    IF ~uds[x].paired THEN KernelAnswers
    ELSE IF PairSupported(proc.os)
    THEN {[ret |-> 0, err |-> NoErr, size |-> size_of_ucred,
           cred |-> [pid |-> 1, uid |-> uds[x].peer.uid, gid |-> uds[x].peer.gid]]}
    ELSE {k \in KernelAnswers : k.ret # 0}

\* what the memory of MaybeUninit::<UCred>::uninit() may hold; the lookup
\* of Linux has none
Uninit(os) == IF Strategy(os) = "A" THEN {NoPeer} ELSE [uid : Words, gid : Words]

\* what a call on an interprocess stream socket leaves alone
Local ==
    /\ step' = NoStep
    /\ UNCHANGED udp
    /\ UNCHANGED <<opts, bound, proc>>

\* UnixStream::pair: two connected sockets, each with the credentials the
\* process has now as its peer's
pair ==
    /\ DOMAIN uds \cap {"a", "b"} = {}
    /\ uds' = [x \in DOMAIN uds \cup {"a", "b"} |->
                 IF x \in {"a", "b"}
                 THEN UnixStream(TRUE, UCred(proc.euid, proc.egid))
                 ELSE uds[x]]
    /\ call' = NoCall
    /\ UNCHANGED errno
    /\ Local

\* a UnixStream made otherwise (connect, or from a socket of std)
connect(x) ==
    /\ x \notin DOMAIN uds
    /\ uds' = [y \in DOMAIN uds \cup {x} |->
                 IF y = x THEN UnixStream(FALSE, NoPeer) ELSE uds[y]]
    /\ call' = NoCall
    /\ UNCHANGED errno
    /\ Local

\* UnixStream::peer_cred: get_peer_cred(self). A primitive that fails sets
\* errno, one that succeeds leaves it; seen remembers the result.
peer_cred(x) ==
    /\ x \in DOMAIN uds
    /\ \E k \in Kernel(x), uninit \in Uninit(proc.os) :
          LET e == IF k.ret = 0 THEN errno ELSE k.err
              r == get_peer_cred(proc.os, k, proc.ptr, uninit, e)
          IN  /\ errno' = e
              /\ uds' = [uds EXCEPT ![x].seen = r]
              /\ call' = [kind |-> "peer_cred", sock |-> x, k |-> k, ret |-> r]
    /\ Local

\* the stream socket is dropped
shutdown(x) ==
    /\ x \in DOMAIN uds
    /\ uds' = [y \in DOMAIN uds \ {x} |-> uds[y]]
    /\ call' = NoCall
    /\ UNCHANGED errno
    /\ Local

\* ------------------------------------------------------ the specification
\* two bound sockets with nothing queued, no operation, no readiness
\* reported yet, the options as the OS makes them; no stream socket
Idle ==
    /\ created = 0
    /\ ops = {}
    /\ rxq = [s \in Socks |-> <<>>]
    /\ txroom = [s \in Socks |-> TRUE]
    /\ ready = [s \in Socks |-> [read |-> FALSE, write |-> FALSE]]
    /\ step = NoStep
    /\ opts = [s \in {} |-> NewOpts]
    /\ bound = {}
    /\ uds = NoStreams
    /\ errno = NoErr
    /\ call = NoCall

Init ==
    /\ Idle
    /\ proc = [os |-> "linux", ptr |-> 8, euid |-> 1000, egid |-> 1000]

Create ==
    \E s \in Socks :
        \/ \E buf \in Payloads, target \in Targets(s) : send_to(s, buf, target)
        \/ \E buf \in Buffers : recv_from(s, buf)

Poll == \E o \in ops : SendToPoll(o) \/ RecvFromPoll(o)

Cancel == \E o \in ops : Drop(o)

Notify == \E s \in Socks, d \in {"read", "write"} : Signal(s, d)

Env == \E s \in Socks : TxDrain(s)

Next == Create \/ Poll \/ Cancel \/ Notify \/ Env

Spec == Init /\ [][Next]_vars

\* The executor polls a task that was woken (one just created counts as
\* woken), and the event source delivers the readiness events of a ready
\* descriptor.
WokenPoll(s) ==
    \E o \in ops : o.sock = s /\ o.woken /\ (SendToPoll(o) \/ RecvFromPoll(o))

Fairness ==
    /\ \A s \in Socks : WF_vars(WokenPoll(s))
    /\ \A s \in Socks : WF_vars(Signal(s, "read")) /\ WF_vars(Signal(s, "write"))

FairSpec == Spec /\ Fairness

\* The option accessors of the datagram sockets, called while operations
\* are created and dropped and readiness is signalled.
Configure ==
    \E s \in Socks, fault \in {NoErr} \cup OptErrors :
        \/ \E v \in TtlValues : set_ttl(s, v, fault)
        \/ ttl(s, fault)
        \/ \E on \in BOOLEAN : set_broadcast(s, on, fault)
        \/ broadcast(s, fault)

OptNext == Create \/ Cancel \/ Notify \/ Configure

OptSpec == Init /\ [][OptNext]_vars

\* The datagram sockets with further sockets bound and dropped between the
\* other actions.
Bind == \E addr \in Addrs \cup FreeAddrs, fault \in {NoErr} \cup BindErrors : bind(addr, fault)

Close == \E b \in bound : close(b)

BindNext == Next \/ Bind \/ Close

BindSpec == Init /\ [][BindNext]_vars

\* The credential lookup, on every platform, for every pair of ids of the
\* process.
CredInit ==
    /\ Idle
    /\ proc \in [os : Platforms, ptr : PtrWidths, euid : Ids, egid : Ids]

CredNext ==
    \/ pair
    \/ \E x \in UdsNames \ {"a", "b"} : connect(x)
    \/ \E x \in UdsNames : peer_cred(x)
    \/ \E x \in UdsNames : shutdown(x)

CredSpec == CredInit /\ [][CredNext]_vars

\* ------------------------------------------------------------ properties
\* the last transition was a drive-step
Drove == step.kind \in {"send", "recv"}

\* C1, as claimed: a drive-step whose syscall attempt returned would-block
\* reports Pending, and no step ends with the would-block error as result.
C1_AlwaysPending ==
    Drove =>
        /\ step.tr.sys.tag = "wouldblock" => step.tr.ret = Pending
        /\ step.tr.ret.err # SysWouldBlock.err

\* C1, amended: a drive-step whose syscall attempt returned would-block
\* reports Pending, or completes with the registration's error when the
\* clear-readiness call fails; it never completes with success and the
\* would-block error is never the result of a step.
C1_WouldBlockAbsorbed ==
    Drove =>
        /\ step.tr.sys.tag = "wouldblock" =>
              /\ step.tr.query = "ready"
              /\ step.tr.ret \in {Pending, ReadyErr(RegError)}
              /\ step.tr.ret = Pending =>
                    \E o \in ops : o.sock = step.sock /\ o.kind = step.kind /\ ~o.woken
        /\ step.tr.ret.err # SysWouldBlock.err

C1_Witness ==
    /\ step.kind = "send"
    /\ step.tr.query = "ready"
    /\ step.tr.sys.tag = "wouldblock"
    /\ step.tr.ret = Pending

\* C2: a drive-step that found its direction not ready reports Pending and
\* attempts no syscall; one that found it ready attempts exactly one.
C2_OneAttemptWhenReady ==
    Drove =>
        /\ step.tr.query = "notready" => (step.tr.ret = Pending /\ step.tr.nsys = 0)
        /\ step.tr.query = "ready" => step.tr.nsys = 1
        /\ step.tr.nsys = 0 <=> step.tr.sys = SysNone

C2_Witness ==
    /\ step.kind = "recv"
    /\ step.tr.query = "ready"
    /\ step.tr.nsys = 1
    /\ step.tr.sys.tag = "ok"

\* C3: a drive-step calls clear-readiness once if its syscall attempt
\* returned would-block, and not at all otherwise (not ready, success, any
\* other error).
C3_ClearIffWouldBlock ==
    Drove =>
        /\ step.tr.nclear \in {0, 1}
        /\ step.tr.nclear = 1 <=> (step.tr.nsys > 0 /\ step.tr.sys.tag = "wouldblock")

C3_Witness ==
    /\ step.kind = "recv"
    /\ step.tr.sys.tag = "wouldblock"
    /\ step.tr.nclear = 1
    /\ ~ready[step.sock].read

\* C4: a drive-step whose syscall attempt failed with an error other than
\* would-block completes with that very error after that one attempt, and
\* the operation is gone: nothing attempts a syscall for it again.
C4_ErrorPassesThrough ==
    (Drove /\ step.tr.sys.tag = "err") =>
        /\ step.tr.sys.err \in OsErrors
        /\ step.tr.ret = ReadyErr(step.tr.sys.err)
        /\ step.tr.nsys = 1
        /\ \A o \in ops : o.sock # step.sock

C4_Witness ==
    /\ step.kind = "recv"
    /\ step.tr.sys = SysErr("ECONNREFUSED")
    /\ step.tr.ret = ReadyErr("ECONNREFUSED")

\* a receive drive-step that completed with success took the head datagram,
\* which a peer's send_to had queued, and returns its length (cut to the
\* buffer) together with its sender's address
TookDatagram ==
    /\ step.dgram # NoDgram
    /\ step.dgram.from \in Socks \ {step.sock}
    /\ step.tr.ret.n = Min(Len(step.dgram.data), Len(step.buf))
    /\ step.tr.ret.src = local_addr(step.dgram.from)
    /\ step.tr.ret.src \in Addrs

\* C5, as claimed: the first drive-step of a receive on a socket with no
\* queued datagram reports Pending; a receive completes only when a peer's
\* datagram was queued; a successful one carries the count and the sender.
C5_FirstStepPending ==
    (Drove /\ step.kind = "recv") =>
        /\ (step.first /\ step.dgram = NoDgram) => step.tr.ret = Pending
        /\ step.tr.ret.tag # "Pending" => step.dgram # NoDgram
        /\ step.tr.ret.tag = "Ok" => TookDatagram

\* C5, amended: the first drive-step of a receive on a socket with no queued
\* datagram reports Pending, or completes with the error of the readiness
\* query, the syscall or the clear-readiness call that failed in it; a
\* receive completes with success only when a peer's datagram was queued,
\* and then carries the count and the sender's address.
C5_NoSuccessWithoutDatagram ==
    (Drove /\ step.kind = "recv") =>
        /\ (step.first /\ step.dgram = NoDgram) =>
              \/ step.tr.ret = Pending
              \/ step.tr.ret = ReadyErr(RegError)
              \/ step.tr.sys.tag = "err" /\ step.tr.ret = ReadyErr(step.tr.sys.err)
        /\ step.tr.ret.tag = "Ok" => TookDatagram

C5_Witness ==
    /\ step.kind = "recv"
    /\ step.first
    /\ step.dgram = NoDgram
    /\ step.tr.query = "ready"
    /\ step.tr.ret = Pending

\* a live operation on s whose descriptor can perform its action
Stuck(s) == \E o \in ops : o.sock = s /\ GenuinelyReady(s, Dir(o.kind))

\* the drive-step just taken found readiness reported while the descriptor
\* could perform the action
DroveReady ==
    /\ step'.kind \in {"send", "recv"}
    /\ step'.tr.query = "ready"
    /\ GenuinelyReady(step'.sock, Dir(step'.kind))

\* C6, as claimed: an operation never stays pending forever while its
\* descriptor remains ready, and the drive-step taken once readiness is
\* signalled for a ready descriptor completes with success.
C6_CompletesWithSuccess ==
    /\ \A s \in Socks : []<>(~Stuck(s))
    /\ [][DroveReady => step'.tr.ret.tag = "Ok"]_vars

\* C6, amended: an operation never stays pending forever while its
\* descriptor remains ready, and the drive-step taken once readiness is
\* signalled for a ready descriptor completes: with success, or with the
\* error the syscall failed with.
C6_NoLostWakeup ==
    /\ \A s \in Socks : []<>(~Stuck(s))
    /\ [][DroveReady =>
            \/ step'.tr.ret.tag = "Ok"
            \/ step'.tr.sys.tag = "err" /\ step'.tr.ret = ReadyErr(step'.tr.sys.err)]_vars

C6_Witness ==
    /\ step.kind = "send"
    /\ ~step.first
    /\ step.tr.ret.tag = "Ok"
    /\ \E t \in Socks : rxq[t] # <<>> /\ \E o \in ops : o.sock = t /\ o.kind = "recv" /\ o.polled

\* C7: a receive that completes with success in a buffer at least as long
\* as the payload of the send_to whose datagram it takes yields that
\* payload's length, the sending socket's local address, and the payload in
\* the first bytes of the buffer.
C7_RoundTrip ==
    (Drove /\ step.kind = "recv" /\ step.tr.ret.tag = "Ok"
        /\ Len(step.buf) >= Len(step.dgram.payload)) =>
        /\ step.dgram.from \in Socks
        /\ step.tr.ret.n = Len(step.dgram.payload)
        /\ step.tr.ret.src = local_addr(step.dgram.from)
        /\ SubSeq(step.buf, 1, step.tr.ret.n) = step.dgram.payload

C7_Witness ==
    /\ step.kind = "recv"
    /\ step.sock = "B"
    /\ step.tr.ret = ReadyOk(MaxLen, local_addr("A"))
    /\ step.buf = Payload(MaxLen)

\* C8: creating an operation adds the new future, not yet driven, and
\* nothing else: no drive-step, no change to the OS queues, to the send
\* buffers or to the cached readiness.
C8_CreationDefersIO ==
    [][created' # created =>
        /\ UNCHANGED <<rxq, txroom, ready>>
        /\ step' = NoStep
        /\ \E o \in ops' \ ops : ops' = ops \cup {o} /\ ~o.polled]_vars

C8_Witness ==
    /\ step = NoStep
    /\ \E o \in ops : o.kind = "recv" /\ ~o.polled /\ rxq[o.sock] # <<>>

\* C9: no socket ever has two live operations, so it has at most one live
\* send and at most one live receive.
C9_OneOperationPerSocket ==
    \A s \in Socks : Cardinality({o \in ops : o.sock = s}) <= 1

C9_Witness ==
    /\ Cardinality(ops) = 2
    /\ created = MaxOps

\* C10: dropping a live operation removes that operation and nothing else:
\* its socket can be borrowed again, and the OS queues, the send buffers and
\* the cached readiness are as they were.
C10_DropOnlyReleases ==
    [][step'.kind = "drop" =>
        /\ UNCHANGED <<created, rxq, txroom, ready>>
        /\ \E o \in ops : o.sock = step'.sock /\ ops' = ops \ {o}
        /\ \A o \in ops' : o.sock # step'.sock]_vars

C10_Witness ==
    /\ step.kind = "drop"
    /\ ~step.first
    /\ rxq[step.sock] # <<>>
    /\ ~ready[step.sock].read

\* the last transition was a credential lookup
Looked == call.kind = "peer_cred"

\* C11: the option-based lookup never aborts the process, and it returns
\* credentials exactly when the option query returned 0 and the length that
\* came back is the native size of the structure; a query that returned 0
\* with another length yields an error.
C11_SizeValidated ==
    (Looked /\ Strategy(proc.os) = "A") =>
        /\ call.ret.tag \in {"Ok", "Err"}
        /\ call.ret.tag = "Ok" <=> (call.k.ret = 0 /\ call.k.size = size_of_ucred)
        /\ (call.k.ret = 0 /\ call.k.size # size_of_ucred) => call.ret.tag = "Err"

C11_Witness ==
    /\ Looked
    /\ Strategy(proc.os) = "A"
    /\ proc.ptr = size_of_u32
    /\ call.k.ret = 0
    /\ call.k.size = 2 * size_of_u32
    /\ call.k.cred.gid # 0
    /\ call.ret.tag = "Err"

\* the lookups made on the two ends of a socketpair succeeded with the
\* effective ids of the process, and so with equal results
PairAgrees ==
    /\ \A x \in DOMAIN uds :
          (uds[x].paired /\ uds[x].seen.tag # "none") =>
              /\ uds[x].seen.tag = "Ok"
              /\ uds[x].seen.val = UCred(proc.euid, proc.egid)
    /\ \A x, y \in DOMAIN uds :
          (uds[x].paired /\ uds[y].paired
              /\ uds[x].seen.tag # "none" /\ uds[y].seen.tag # "none") =>
            uds[x].seen = uds[y].seen

\* C12, as claimed: the credential lookup on either end of a socketpair made
\* in the process succeeds, the two results are equal, and their ids are the
\* effective user and group id of the process.
C12_PairSymmetry == PairAgrees

\* C12, amended: on a platform whose primitive answers for the sockets of a
\* socketpair, the credential lookup on either end of a socketpair made in
\* the process succeeds, the two results are equal, and their ids are the
\* effective user and group id of the process.
C12_PairSymmetryWhereSupported == PairSupported(proc.os) => PairAgrees

C12_Witness ==
    /\ proc.os = "macos"
    /\ proc.euid # proc.egid
    /\ {"a", "b"} \subseteq DOMAIN uds
    /\ uds["a"].seen.tag = "Ok"
    /\ uds["b"].seen = uds["a"].seen
    /\ uds["a"].seen.val = UCred(proc.euid, proc.egid)

\* C13: under either strategy a lookup whose primitive returned non-zero
\* yields an error with the code the primitive left in errno, and a lookup
\* yields credentials only if the primitive returned 0, and then the user
\* and group id the OS wrote.
C13_FailureIsError ==
    Looked =>
        /\ call.k.ret # 0 =>
              /\ call.ret = Err(call.k.err)
              /\ errno = call.k.err
        /\ call.ret.tag = "Ok" =>
              /\ call.k.ret = 0
              /\ call.ret.val = UCred(call.k.cred.uid, call.k.cred.gid)

C13_Witness ==
    /\ Looked
    /\ Strategy(proc.os) = "B"
    /\ call.k.ret # 0
    /\ call.ret = Err("ENOTCONN")
    /\ errno = "ENOTCONN"

\* C14: ttl() returns the value of the last set_ttl that succeeded on the
\* socket, broadcast() that of the last set_broadcast that succeeded; an
\* accessor call returns a result at once and changes neither the
\* operations, nor the readiness, nor the queues and send buffers.
C14_SetGetRoundTrip ==
    /\ []((call.kind = "ttl" /\ call.ret.tag = "Ok") =>
              \A v \in OptsOf(call.sock).set_ttl : call.ret.val = v)
    /\ []((call.kind = "broadcast" /\ call.ret.tag = "Ok") =>
              \A b \in OptsOf(call.sock).set_broadcast : call.ret.val = b)
    /\ [][call'.kind \in {"set_ttl", "ttl", "set_broadcast", "broadcast"} =>
            /\ call'.ret.tag \in {"Ok", "Err"}
            /\ UNCHANGED udp]_vars

C14_Witness ==
    /\ call.kind = "broadcast"
    /\ call.ret = Ok(FALSE)
    /\ OptsOf(call.sock).set_broadcast = {FALSE}
    /\ OptsOf(call.sock).set_ttl = {255}
    /\ OptsOf(call.sock).ttl = 255
    /\ ready[call.sock].write
    /\ \E o \in ops : o.kind = "recv"

\* C15: a bind to an address a socket is bound to returns the OS's
\* address-in-use error as the OS gave it, makes no socket and no
\* registration, and changes nothing of the existing sockets.
C15_BindInUseFails ==
    [][(call'.kind = "bind" /\ InUse(call'.arg)) =>
        /\ call'.os = Err("EADDRINUSE")
        /\ call'.ret = call'.os
        /\ bound' = bound
        /\ UNCHANGED <<udp, opts>>]_vars

C15_Witness ==
    /\ call.kind = "bind"
    /\ call.arg = local_addr("A")
    /\ call.ret = Err("EADDRINUSE")
    /\ rxq["A"] # <<>>
    /\ ready["A"].read
    /\ \E o \in ops : o.sock = "A"
    /\ bound # {}

\* a drive-step of a parked operation, one that was driven before and not
\* woken since, attempts no syscall and clears nothing, and it reports what
\* the set res allows
ParkedStep(res) ==
    step'.kind \in {"send", "recv"} =>
        \A o \in ops : (o.sock = step'.sock /\ o.polled /\ ~o.woken) =>
            /\ step'.tr.nsys = 0
            /\ step'.tr.nclear = 0
            /\ step'.tr.ret \in res

\* the drive-step that comes straight after the operation's step that
\* absorbed a would-block
AgainStep(res) ==
    (Drove /\ step.again) =>
        /\ step.tr.nsys = 0
        /\ step.tr.nclear = 0
        /\ step.tr.ret \in res

\* C16, as claimed: a drive-step of an operation that absorbed a would-block,
\* taken before readiness is signalled again for its direction, reports
\* Pending and attempts no syscall.
C16_AlwaysNotReady == AgainStep({Pending})

\* C16, amended: a drive-step of an operation that absorbed a would-block,
\* taken before readiness is signalled again for its direction, attempts no
\* syscall; it reports Pending, or completes with the registration's error
\* when the readiness query fails.
C16_NoBusyPoll ==
    /\ [][ParkedStep({Pending, ReadyErr(RegError)})]_vars
    /\ []AgainStep({Pending, ReadyErr(RegError)})
    /\ []((Drove /\ step.tr.ret = ReadyErr(RegError) /\ step.tr.nsys = 0) =>
              step.tr.query = "error")

C16_Witness ==
    /\ step.kind = "send"
    /\ step.again
    /\ step.tr.query = "notready"
    /\ step.tr.nsys = 0
    /\ step.tr.ret = Pending
    /\ \E o \in ops : o.sock = step.sock /\ ~o.woken

\* C17: a drive-step that clears readiness clears that of its own direction
\* on its own socket: a send the write readiness, a receive the read
\* readiness; the other direction and the other sockets keep theirs.
C17_ClearsOwnDirection ==
    [][(step'.kind \in {"send", "recv"} /\ step'.tr.nclear > 0) =>
        /\ step'.kind = "send" =>
              /\ ~ready'[step'.sock].write
              /\ ready'[step'.sock].read = ready[step'.sock].read
        /\ step'.kind = "recv" =>
              /\ ~ready'[step'.sock].read
              /\ ready'[step'.sock].write = ready[step'.sock].write
        /\ \A t \in Socks \ {step'.sock} : ready'[t] = ready[t]]_vars

C17_Witness ==
    /\ step.kind = "send"
    /\ step.tr.nclear = 1
    /\ step.tr.ret = Pending
    /\ ready[step.sock].read
    /\ ~ready[step.sock].write

\* the queues after a send by s that the OS accepted: one datagram of s
\* more in one queue, or the same if the OS dropped it at a full queue
OneSent(s) ==
    \/ rxq' = rxq
    \/ \E t \in Socks :
          /\ rxq'[t] # <<>>
          /\ rxq'[t][Len(rxq'[t])].from = s
          /\ rxq' = [rxq EXCEPT ![t] = Append(rxq[t], rxq'[t][Len(rxq'[t])])]

\* C18: no live operation has had a syscall attempt succeed; a drive-step
\* makes at most one attempt and completes with success exactly when that
\* attempt succeeded, with its result, as the only successful attempt of
\* the operation, which is gone then; a step that completes a receive takes
\* one datagram off the socket's queue, one that completes a send hands one
\* datagram to the OS, and any other step leaves the queues as they were.
C18_SingleShot ==
    /\ [](\A o \in ops : o.done = 0)
    /\ [](Drove =>
            /\ step.tr.nsys <= 1
            /\ (Succeeded(step.tr) = 1) <=> (step.tr.ret.tag = "Ok")
            /\ step.tr.ret.tag = "Ok" =>
                  /\ step.tr.ret = ReadyOk(step.tr.sys.n, step.tr.sys.src)
                  /\ step.done = 1
                  /\ \A o \in ops : o.sock # step.sock
            /\ step.tr.ret.tag # "Ok" => step.done = 0)
    /\ [][step'.kind \in {"send", "recv"} =>
            IF step'.tr.ret.tag # "Ok" THEN rxq' = rxq
            ELSE IF step'.kind = "recv"
                 THEN /\ rxq[step'.sock] # <<>>
                      /\ rxq' = [rxq EXCEPT ![step'.sock] = Tail(rxq[step'.sock])]
            ELSE OneSent(step'.sock)]_vars

C18_Witness ==
    /\ step.kind = "recv"
    /\ ~step.first
    /\ step.tr.ret.tag = "Ok"
    /\ step.done = 1
    /\ step.dgram # NoDgram
    /\ rxq[step.sock] = <<>>

\* C19: a drive-step whose readiness query failed completes with the
\* query's error, attempts no syscall and clears no readiness, and the
\* operation is gone.
C19_QueryErrorCompletes ==
    (Drove /\ step.tr.query = "error") =>
        /\ step.tr.ret = ReadyErr(RegError)
        /\ step.tr.nsys = 0
        /\ step.tr.sys = SysNone
        /\ step.tr.nclear = 0
        /\ \A o \in ops : o.sock # step.sock

C19_Witness ==
    /\ step.kind = "recv"
    /\ ~step.first
    /\ step.tr.query = "error"
    /\ step.tr.ret = ReadyErr(RegError)
    /\ ready[step.sock].read
    /\ rxq[step.sock] # <<>>

====
